---- MODULE Spec2Model ----
(***************************************************************************)
(* soci-wrapper: one run of the build-and-publish pipeline.                *)
(*                                                                         *)
(* The repository holds three revisions of the program text:               *)
(*   "main.go" : src/main.go, lines 1-251 (flag CLI, one process function) *)
(*   "split"   : src/unnamed/part_001, lines 1-301 (flag CLI, processV1    *)
(*               and processV2, main inspects the returned error)          *)
(*   "v1only"  : src/unnamed/part_001, lines 303-541 (positional CLI,      *)
(*               buildIndex always uses Build)                             *)
(* A run is of exactly one revision (variable build).  A run starts either *)
(* at main (entry = "cli") or at the process function itself               *)
(* (entry = "call", the serverless handler form).                          *)
(*                                                                         *)
(* The external collaborators (registry client, index builder, stores,     *)
(* the file system) are modelled at their interface: every call either     *)
(* succeeds or fails, chosen nondeterministically.                         *)
(***************************************************************************)
EXTENDS Integers, Sequences, FiniteSets, TLC

\* ------------------------------------------------------------------ bounds
\* Longest candidate list GetIndexDescriptorCollection returns.
MaxCand == 3
\* Creation timestamps are 1..MaxTime.
MaxTime == 2
\* cleanUp is applied to one directory up to MaxReleases times.
MaxReleases == 2
\* A host runs up to MaxRuns invocations at a time, and os.MkdirTemp draws
\* the name of a directory from MaxNames names.
MaxRuns == 2
MaxNames == 3

\* ------------------------------------------------------------------ inputs
Builds == {"main.go", "split", "v1only"}
Entries == {"cli", "call"}
Repos == {"", "app"}
ImageDigests == {"", "sha256:deadbeef"}
Regions == {"", "us-west-2", "cn-north-1", "ca-central-1", "c"}
Accounts == {"", "123456789012"}
Versions == {"V1", "V2", "V3"}
Tags == {"", "foo"}
\* len(os.Args) of the positional CLI: the program name and up to six arguments.
ArgCounts == 1..7

IndexDigests == {"sha256:aaa", "sha256:bbb"}
\* ocispec.Descriptor, reduced to its digest.
Descriptors == [Digest : IndexDigests]
\* soci.IndexDescriptorInfo
IndexDescriptorInfos == [Descriptor : Descriptors, CreatedAt : 1..MaxTime]

RECURSIVE SeqsUpTo(_, _)
SeqsUpTo(S, n) ==
  IF n = 0 THEN {<<>>}
  ELSE LET shorter == SeqsUpTo(S, n - 1)
       IN shorter \cup {Append(s, x) : s \in {t \in shorter : Len(t) = n - 1}, x \in S}

CandidateLists == SeqsUpTo(IndexDescriptorInfos, MaxCand)

\* A Go error value: nil, or an error with its text.
NoErr == "<nil>"
\* The reasons ValidateImageDigest rejects an image.
ValidationErrors == {"manifest malformed", "unsupported media type", "image not found"}

NoDescriptor == [Digest |-> ""]

VARIABLES
  build,            \* the revision this run executes
  entry,            \* "cli": started at main; "call": process called directly
  flags,            \* the values given on the command line
  argc,             \* len(os.Args) (positional CLI only)
  params,           \* the arguments process was called with
  pc,               \* position of the run
  registryUrl,      \* process: registryUrl
  dirState,         \* the working directory: "none", "present", "removed", "leftover"
  content,          \* the entries made under the working directory
  deferred,         \* defer cleanUp(ctx, dataDir) has been registered
  tag,              \* the tag argument of Push
  err,              \* process: err, the error of the latest call
  catalog,          \* what GetIndexDescriptorCollection returned
  indexDescriptorInfos, \* buildIndex: the slice, sorted in place
  converted,        \* the descriptor builder.Convert returned
  indexDescriptor,  \* process: indexDescriptor
  retMsg, retErr,   \* what process returns
  returned,         \* process has returned
  exited, exitCode, \* the operating-system process has ended, and its code
  events,           \* every collaborator call made, in order
  pushed,           \* every Push call: descriptors handed over, tag, outcome
  tmp,              \* /tmp of a host that several runs share: its directories
  runs              \* the runs on that host: position, dataDir, entries written

vars == <<build, entry, flags, argc, params, pc, registryUrl, dirState, content, deferred,
          tag, err, catalog, indexDescriptorInfos, converted, indexDescriptor, retMsg, retErr, returned,
          exited, exitCode, events, pushed, tmp, runs>>

\* ------------------------------------------------------------- pure code
\* A prefix test that looks at the first character only.
HasPrefixFirstChar(s, prefix) ==
  Len(s) >= 1 /\ Len(prefix) >= 1 /\ SubSeq(s, 1, 1) = SubSeq(prefix, 1, 1)

HasPrefix(s, prefix) ==
  Len(s) >= Len(prefix) /\ SubSeq(s, 1, Len(prefix)) = prefix

buildEcrRegistryUrl(region, account) ==
  LET awsDomain == IF HasPrefix(region, "cn") THEN ".amazonaws.com.cn"
                   ELSE ".amazonaws.com"
  IN account \o ".dkr.ecr." \o region \o awsDomain

SuccessMessage == "Successfully built and pushed SOCI index"
SkipMessage == "Exited early due to manifest validation error"

\* The tag without the suffix.
sociTagNoSuffix(sociIndexVersion, imageTag) ==
  IF sociIndexVersion = "V2" /\ imageTag # "" THEN imageTag ELSE ""

\* The tag local of process (main.go, v1only).
sociTag(sociIndexVersion, imageTag) ==
  IF sociIndexVersion = "V2" /\ imageTag # "" THEN imageTag \o "-soci" ELSE ""

\* The tag argument processV1 and processV2 hand to Push (split).
splitTag(sociIndexVersion, outputTag) ==
  IF sociIndexVersion = "V2" THEN outputTag ELSE ""

\* One collaborator call and whether it returned without error.
Call(op, ok) == [op |-> op, ok |-> ok]

\* How often op was called, and whether some call of it ended with outcome ok.
Count(op) == Cardinality({i \in 1..Len(events) : events[i].op = op})
Did(op, ok) == \E i \in 1..Len(events) : events[i] = Call(op, ok)

\* ------------------------------------------------------------------ main
\* The checks without the one that V2 needs a tag.
flagsRejectedNoTagCheck(f) ==
  \/ f.repo = "" \/ f.digest = "" \/ f.region = "" \/ f.account = ""
  \/ (f.sociIndexVersion # "V1" /\ f.sociIndexVersion # "V2")

\* main's checks of the flags, in order (main.go, split): TRUE when it exits 1.
flagsRejected(f) ==
  \/ f.repo = "" \/ f.digest = "" \/ f.region = "" \/ f.account = ""
  \/ (f.sociIndexVersion # "V1" /\ f.sociIndexVersion # "V2")
  \/ (f.sociIndexVersion = "V2" /\ f.imageTag = "")

\* The arguments main.go's main hands to process.
mainCall(f) == f

\* The call split's main makes: processV2 with the output tag, else processV1,
\* which takes no tag and fixes the version.
splitCall(f) ==
  IF f.sociIndexVersion = "V2" THEN f
  ELSE [f EXCEPT !.sociIndexVersion = "V1", !.imageTag = ""]

\* The positional CLI (v1only): the version and the tag default when absent.
positionalVersion(f, n) == IF n >= 6 THEN f.sociIndexVersion ELSE "V1"
positionalTag(f, n) == IF n >= 7 THEN f.imageTag ELSE ""
positionalCall(f, n) ==
  [f EXCEPT !.sociIndexVersion = positionalVersion(f, n),
            !.imageTag = positionalTag(f, n)]
\* TRUE when the positional main exits 1 on its own checks.
positionalRejected(f, n) ==
  \/ n < 4
  \/ (n >= 6 /\ f.sociIndexVersion # "V1" /\ f.sociIndexVersion # "V2")
  \/ (positionalVersion(f, n) = "V2" /\ positionalTag(f, n) = "")
\* os.Args[4] is read after only len(os.Args) < 4 was excluded.
positionalPanics(n) == n = 4

\* The exit code after process returned: main.go and v1only drop the result,
\* split exits 1 on a non-nil error.
exitAfterProcess(b, e) ==
  IF b = "split" /\ e # NoErr THEN 1 ELSE 0

\* ------------------------------------------------------------ buildIndex
\* The branch never taken.
convertBranchNever(sociIndexVersion) == FALSE

\* The Convert branch taken for every version.
convertBranchAlways(sociIndexVersion) == TRUE

\* buildIndex takes the Convert branch (main.go, split) ...
convertBranch(sociIndexVersion) == sociIndexVersion = "V2"
\* ... and never in v1only, which only warns and builds.
convertBranchV1Only(sociIndexVersion) == FALSE

usesConvert(b, sociIndexVersion) ==
  IF b = "v1only" THEN convertBranchV1Only(sociIndexVersion)
  ELSE convertBranch(sociIndexVersion)

convertError(e) == "failed to convert image to SOCI V2 index: " \o e
buildError(b, e) ==
  IF b = "v1only" THEN "failed to build SOCI index: " \o e
  ELSE "failed to build SOCI V1 index: " \o e

\* The comparison turned round.
lessReversed(a, b) == a.CreatedAt > b.CreatedAt

\* The entries the stores make in the working directory.
artifactsStoreName == "store"
artifactsDbName == "artifacts.db"
DirEntries == {artifactsStoreName, artifactsDbName}

\* The entries after a call that creates name under the directory: there when
\* the call returned no error, there or not when it failed on the way.
written(c, name, ok) == IF ok THEN {c \cup {name}} ELSE {c, c \cup {name}}

\* os.RemoveAll also failing for a path that does not exist, as os.Remove does.
removeAllOutcomesAsRemove(d) == BOOLEAN

\* os.RemoveAll: whether it can return nil.  For a path that does not exist it
\* returns nil; for a directory it returns nil or the first error it met.
removeAllOutcomes(d) == IF d \in {"present", "leftover"} THEN BOOLEAN ELSE {TRUE}

\* The less function given to sort.Slice.
less(a, b) == a.CreatedAt < b.CreatedAt

\* sort.Slice: the slice permuted so that no element is less than an earlier
\* one.  The sort is not guaranteed to be stable: every such arrangement of
\* the same elements is an outcome.
sortSlice(s) ==
  {t \in {[i \in 1..Len(s) |-> s[p[i]]] : p \in Permutations(1..Len(s))} :
     \A i, j \in 1..Len(t) : i < j => ~less(t[j], t[i])}

\* The descriptor buildIndex returns from the sorted slice.
lastDescriptor(s) == s[Len(s)].Descriptor

\* The tag process hands to Push.
pushTag(b, p) ==
  IF b = "split" THEN splitTag(p.sociIndexVersion, p.imageTag)
  ELSE sociTag(p.sociIndexVersion, p.imageTag)

\* ------------------------------------------------------------- the host
RunIds == 1..MaxRuns
\* The names "/tmp/TODO<random>" that os.MkdirTemp("/tmp", "TODO") can give.
Names == 1..MaxNames

\* A path under /tmp: whether the directory exists, and its entries with the
\* run that wrote each.
NoDir == [exists |-> FALSE, files |-> {}]
NewDir == [exists |-> TRUE, files |-> {}]
NoRun == [pc |-> "idle", dataDir |-> 0, wrote |-> {}]

\* A directory made under a name whether or not the name is taken.
mkdirTempAnyName(fs) == Names

\* os.MkdirTemp: the directory is new, made under a name that did not exist
\* (a name that exists is tried again with another random suffix).
mkdirTemp(fs) == {n \in Names : ~fs[n].exists}

\* os.RemoveAll(dataDir) in the file system: the path goes when it returned
\* nil; else the directory stays with what could not be removed.
removeAll(fs, dataDir, removed) ==
  {[fs EXCEPT ![dataDir] = d] :
     d \in IF removed THEN {NoDir}
           ELSE {[exists |-> TRUE, files |-> f] : f \in SUBSET fs[dataDir].files}}

FleetIdle ==
  /\ tmp = [n \in Names |-> NoDir]
  /\ runs = [r \in RunIds |-> NoRun]

\* ------------------------------------------------------------------ Init
FlagSets ==
  [repo : Repos, digest : ImageDigests, region : Regions, account : Accounts,
   sociIndexVersion : Versions, imageTag : Tags]

NoParams ==
  [repo |-> "", digest |-> "", region |-> "", account |-> "",
   sociIndexVersion |-> "", imageTag |-> ""]

\* The direct calls of process: a well-formed image reference, any region,
\* any version string, tag given or not.  split has processV1 (no tag
\* parameter) and processV2.
CallSets(b) ==
  {p \in [repo : {"app"}, digest : {"sha256:deadbeef"}, region : Regions \ {""},
          account : {"123456789012"}, sociIndexVersion : Versions, imageTag : Tags] :
     b = "split" => /\ p.sociIndexVersion \in {"V1", "V2"}
                    /\ (p.sociIndexVersion = "V1" => p.imageTag = "")}

Init ==
  /\ build \in Builds
  /\ entry \in Entries
  /\ IF entry = "cli"
     THEN /\ flags \in FlagSets
          /\ params = NoParams
          /\ pc = "main"
          /\ IF build = "v1only"
             THEN /\ argc \in ArgCounts
                  \* the first four arguments are non-empty words when
                  \* given; an argument that was not given has no value
                  /\ argc < 6 => flags.sociIndexVersion = "V1"
                  /\ argc < 7 => flags.imageTag = ""
                  /\ argc < 5 <=> flags.account = ""
                  /\ argc < 4 <=> flags.region = ""
                  /\ argc < 3 <=> flags.digest = ""
                  /\ argc < 2 <=> flags.repo = ""
             ELSE argc = 0
     ELSE /\ flags = NoParams
          /\ argc = 0
          /\ params \in CallSets(build)
          /\ pc = "process"
  /\ registryUrl = ""
  /\ dirState = "none"
  /\ content = {}
  /\ deferred = FALSE
  /\ tag = ""
  /\ err = NoErr
  /\ catalog = <<>>
  /\ indexDescriptorInfos = <<>>
  /\ converted = NoDescriptor
  /\ indexDescriptor = NoDescriptor
  /\ retMsg = ""
  /\ retErr = NoErr
  /\ returned = FALSE
  /\ exited = FALSE
  /\ exitCode = 0
  /\ events = <<>>
  /\ pushed = <<>>
  /\ FleetIdle

\* --------------------------------------------------------------- actions
pipelineVars == <<registryUrl, dirState, content, deferred, tag, err, catalog,
                  indexDescriptorInfos, converted, indexDescriptor, events, pushed>>
resultVars == <<retMsg, retErr, returned>>
fleetVars == <<tmp, runs>>
\* What a run never changes: its inputs, and the other runs of the host.
inputVars == <<build, entry, flags, argc, fleetVars>>

\* os.Exit(code), or the runtime ending the process.
Exit(code) ==
  /\ exited' = TRUE
  /\ exitCode' = code
  /\ pc' = "exited"

\* main up to the call of process (main.go, split).
MainFlags ==
  /\ pc = "main"
  /\ build \in {"main.go", "split"}
  /\ IF flagsRejected(flags)
     THEN /\ Exit(1)
          /\ UNCHANGED params
     ELSE /\ params' = (IF build = "split" THEN splitCall(flags) ELSE mainCall(flags))
          /\ pc' = "process"
          /\ UNCHANGED <<exited, exitCode>>
  /\ UNCHANGED <<inputVars, pipelineVars, resultVars>>

\* main up to the call of process (v1only).
MainPositional ==
  /\ pc = "main"
  /\ build = "v1only"
  /\ IF argc < 4
     THEN /\ Exit(1)
          /\ UNCHANGED params
     ELSE IF positionalPanics(argc)
     THEN \* index out of range: the Go runtime ends the process with status 2
          /\ Exit(2)
          /\ UNCHANGED params
     ELSE IF positionalRejected(flags, argc)
     THEN /\ Exit(1)
          /\ UNCHANGED params
     ELSE /\ params' = positionalCall(flags, argc)
          /\ pc' = "process"
          /\ UNCHANGED <<exited, exitCode>>
  /\ UNCHANGED <<inputVars, pipelineVars, resultVars>>

\* The message goes back and the error is dropped.
lambdaErrorDropsError(msg, e) ==
  /\ err' = e
  /\ retMsg' = msg
  /\ retErr' = NoErr
  /\ pc' = "return"

\* The failed call made again instead of returning.
lambdaErrorRetries(msg, e) ==
  /\ err' = e
  /\ pc' = pc
  /\ UNCHANGED <<retMsg, retErr>>

\* The error noted, and the run going on to Push all the same.
lambdaErrorContinues(msg, e) ==
  /\ err' = e
  /\ pc' = "push"
  /\ UNCHANGED <<retMsg, retErr>>

\* One message for every failure.
lambdaErrorGenericMessage(msg, e) ==
  /\ err' = e
  /\ retMsg' = "error"
  /\ retErr' = e
  /\ pc' = "return"

\* lambdaError: the message and the error go back to the caller of process.
lambdaError(msg, e) ==
  /\ err' = e
  /\ retMsg' = msg
  /\ retErr' = e
  /\ pc' = "return"

\* The call returned no error: on to the next step.
Proceed(next) ==
  /\ err' = NoErr
  /\ pc' = next
  /\ UNCHANGED <<retMsg, retErr>>

Called(op, ok) == events' = Append(events, Call(op, ok))

\* process: the endpoint, then registryutils.Init.
RegistryInit ==
  /\ pc = "process"
  /\ registryUrl' = buildEcrRegistryUrl(params.region, params.account)
  /\ \E ok \in BOOLEAN :
       /\ Called("Init", ok)
       /\ IF ok THEN Proceed("validate")
          ELSE lambdaError("Remote registry initialization error", "registry init failed")
  /\ UNCHANGED <<inputVars, params, dirState, content, deferred, tag, catalog,
                 indexDescriptorInfos, converted, indexDescriptor, pushed,
                 returned, exited, exitCode>>

\* The validation error handed on like every other error.
validationSkipAsError(e) ==
  /\ err' = e
  /\ retMsg' = "Image validation error"
  /\ retErr' = e
  /\ pc' = "return"

\* What process returns when ValidateImageDigest returned e: a warning is
\* logged and the skip message goes back with a nil error.
validationSkip(e) ==
  /\ err' = e
  /\ retMsg' = SkipMessage
  /\ retErr' = NoErr
  /\ pc' = "return"

\* registry.ValidateImageDigest
Validate ==
  /\ pc = "validate"
  /\ \E e \in ValidationErrors \cup {NoErr} :
       /\ Called("ValidateImageDigest", e = NoErr)
       /\ IF e = NoErr THEN Proceed("createTempDir")
          ELSE validationSkip(e)
  /\ UNCHANGED <<inputVars, params, registryUrl, dirState, content, deferred, tag, catalog,
                 indexDescriptorInfos, converted, indexDescriptor, pushed,
                 returned, exited, exitCode>>

\* createTempDir, and on success the registration of the deferred cleanUp.
\* The defer statement put before the check of createTempDir's error.
registersDeferAlways(ok) == TRUE

\* process registers the deferred cleanUp after createTempDir returned no
\* error; when it failed, process has returned before the defer statement.
registersDefer(ok) == ok

CreateTempDir ==
  /\ pc = "createTempDir"
  /\ \E ok \in BOOLEAN :
       /\ Called("createTempDir", ok)
       /\ deferred' = registersDefer(ok)
       /\ IF ok THEN /\ dirState' = "present"
                     /\ content' = {}
                     /\ Proceed("initSociStore")
          ELSE /\ lambdaError("Directory create error", "mkdir failed")
               /\ UNCHANGED <<dirState, content>>
  /\ UNCHANGED <<inputVars, params, registryUrl, tag, catalog,
                 indexDescriptorInfos, converted, indexDescriptor, pushed,
                 returned, exited, exitCode>>

InitSociStore ==
  /\ pc = "initSociStore"
  /\ \E ok \in BOOLEAN :
       /\ Called("initSociStore", ok)
       /\ content' \in written(content, artifactsStoreName, ok)
       /\ IF ok THEN Proceed("pull")
          ELSE lambdaError("OCI storage initialization error", "store init failed")
  /\ UNCHANGED <<inputVars, params, registryUrl, dirState, deferred, tag, catalog,
                 indexDescriptorInfos, converted, indexDescriptor, pushed,
                 returned, exited, exitCode>>

\* registry.Pull; after it process prepares the tag for Push.
Pull ==
  /\ pc = "pull"
  /\ \E ok \in BOOLEAN :
       /\ Called("Pull", ok)
       /\ IF ok THEN /\ tag' = pushTag(build, params)
                     /\ Proceed("buildIndex")
          ELSE /\ lambdaError("Image pull error", "pull failed")
               /\ UNCHANGED tag
  /\ UNCHANGED <<inputVars, params, registryUrl, dirState, content, deferred, catalog,
                 indexDescriptorInfos, converted, indexDescriptor, pushed,
                 returned, exited, exitCode>>

\* buildIndex up to its branch: the artifacts db, the containerd store and the
\* index builder are set up in this order, and the first failure is returned.
SetupCalls == <<"initSociArtifactsDb", "initContainerdStore", "NewIndexBuilder">>

\* The setup calls made when the failAt-th fails (0: none fails).
setupEvents(failAt) ==
  [i \in 1..(IF failAt = 0 THEN Len(SetupCalls) ELSE failAt) |->
     Call(SetupCalls[i], i # failAt)]

BuildIndexSetup ==
  /\ pc = "buildIndex"
  /\ \E failAt \in 0..Len(SetupCalls) :
       /\ events' = events \o setupEvents(failAt)
       /\ content' \in written(content, artifactsDbName, failAt # 1)
       /\ IF failAt = 0 THEN Proceed("builder")
          ELSE lambdaError("SOCI index build error", SetupCalls[failAt] \o " failed")
  /\ UNCHANGED <<inputVars, params, registryUrl, dirState, deferred, tag, catalog,
                 indexDescriptorInfos, converted, indexDescriptor, pushed,
                 returned, exited, exitCode>>

\* builder.Convert: the descriptor it returns is the one buildIndex returns.
Convert ==
  /\ pc = "builder"
  /\ usesConvert(build, params.sociIndexVersion)
  /\ \/ \E d \in Descriptors :
          /\ Called("Convert", TRUE)
          /\ converted' = d
          /\ indexDescriptor' = d
          /\ Proceed("push")
     \/ /\ Called("Convert", FALSE)
        /\ lambdaError("SOCI index build error", convertError("convert failed"))
        /\ UNCHANGED <<converted, indexDescriptor>>
  /\ UNCHANGED <<inputVars, params, registryUrl, dirState, content, deferred, tag, catalog,
                 indexDescriptorInfos, pushed, returned, exited, exitCode>>

\* builder.Build: its result is dropped, only its error is looked at.
Build ==
  /\ pc = "builder"
  /\ ~usesConvert(build, params.sociIndexVersion)
  /\ \E ok \in BOOLEAN :
       /\ Called("Build", ok)
       /\ IF ok THEN Proceed("enumerate")
          ELSE lambdaError("SOCI index build error", buildError(build, "build failed"))
  /\ UNCHANGED <<inputVars, params, registryUrl, dirState, content, deferred, tag, catalog,
                 indexDescriptorInfos, converted, indexDescriptor, pushed,
                 returned, exited, exitCode>>

\* soci.GetIndexDescriptorCollection
GetIndexDescriptorCollection ==
  /\ pc = "enumerate"
  /\ \/ \E c \in CandidateLists :
          /\ Called("GetIndexDescriptorCollection", TRUE)
          /\ catalog' = c
          /\ indexDescriptorInfos' = c
          /\ Proceed("select")
     \/ /\ Called("GetIndexDescriptorCollection", FALSE)
        /\ lambdaError("SOCI index build error", "catalog lookup failed")
        /\ UNCHANGED <<catalog, indexDescriptorInfos>>
  /\ UNCHANGED <<inputVars, params, registryUrl, dirState, content, deferred, tag,
                 converted, indexDescriptor, pushed, returned, exited, exitCode>>

\* No candidate taken for nothing to do.
noIndicesFoundAsSuccess ==
  /\ err' = NoErr
  /\ retMsg' = SuccessMessage
  /\ retErr' = NoErr
  /\ pc' = "return"

\* What process returns when the lookup gave no candidate: buildIndex returns
\* a new error, and process hands it on through lambdaError.
noIndicesFound ==
  lambdaError("SOCI index build error", "no SOCI indices found in OCI store")

\* buildIndex after the lookup: no candidate is an error, else the slice is
\* sorted by CreatedAt and its last element's descriptor returned.
SelectLatest ==
  /\ pc = "select"
  /\ IF Len(indexDescriptorInfos) = 0
     THEN /\ noIndicesFound
          /\ UNCHANGED <<indexDescriptorInfos, indexDescriptor, events>>
     ELSE \E sorted \in sortSlice(indexDescriptorInfos) :
          /\ Called("sort.Slice", TRUE)
          /\ indexDescriptorInfos' = sorted
          /\ indexDescriptor' = lastDescriptor(sorted)
          /\ Proceed("push")
  /\ UNCHANGED <<inputVars, params, registryUrl, dirState, content, deferred, tag, catalog,
                 converted, pushed, returned, exited, exitCode>>

\* The result of Push not looked at.
pushResultUnchecked(ok) ==
  /\ err' = NoErr
  /\ retMsg' = SuccessMessage
  /\ retErr' = NoErr
  /\ pc' = "return"

\* What process returns after Push returned: the error through lambdaError,
\* else the success message.
pushResult(ok) ==
  IF ok THEN /\ err' = NoErr
             /\ retMsg' = SuccessMessage
             /\ retErr' = NoErr
             /\ pc' = "return"
  ELSE lambdaError("SOCI index push error", "push failed")

\* registry.Push of the one descriptor, with the tag.
Push ==
  /\ pc = "push"
  /\ \E ok \in BOOLEAN :
       /\ Called("Push", ok)
       /\ pushed' = Append(pushed, [descriptors |-> <<indexDescriptor>>,
                                    tag |-> tag, ok |-> ok])
       /\ pushResult(ok)
  /\ UNCHANGED <<inputVars, params, registryUrl, dirState, content, deferred, tag, catalog,
                 indexDescriptorInfos, converted, indexDescriptor, returned,
                 exited, exitCode>>

\* A cleanUp that hands the failure of the removal to the caller of process.
cleanUpSurfacesError(removed) ==
  /\ Called("cleanUp", removed)
  /\ dirState' = IF removed THEN "removed" ELSE "leftover"
  /\ retMsg' = IF removed THEN retMsg ELSE "Clean up error"
  /\ retErr' = IF removed THEN retErr ELSE "remove failed"

\* cleanUp: os.RemoveAll of the directory, whatever was made under it; a
\* failure is logged and dropped, and the directory stays with what could not
\* be removed.
cleanUp(removed) ==
  /\ Called("cleanUp", removed)
  /\ dirState' = IF removed THEN "removed" ELSE "leftover"
  /\ UNCHANGED <<retMsg, retErr>>

\* A cleanUp called at the end of the successful path only.
cleanUpRunsOnSuccess == deferred /\ retErr = NoErr

\* The deferred cleanUp runs at every return after its registration.
cleanUpRuns == deferred

\* process returns: the deferred cleanUp runs, then the caller has the result.
Return ==
  /\ pc = "return"
  /\ IF cleanUpRuns
     THEN \E removed \in removeAllOutcomes(dirState) : cleanUp(removed)
     ELSE UNCHANGED <<dirState, events, retMsg, retErr>>
  /\ returned' = TRUE
  /\ pc' = IF entry = "cli" THEN "afterProcess" ELSE "done"
  /\ UNCHANGED <<inputVars, params, registryUrl, content, deferred, tag, err, catalog,
                 indexDescriptorInfos, converted, indexDescriptor, pushed,
                 exited, exitCode>>

\* main after process returned.
MainExit ==
  /\ pc = "afterProcess"
  /\ Exit(exitAfterProcess(build, retErr))
  /\ UNCHANGED <<inputVars, params, pipelineVars, resultVars>>

Next ==
  \/ MainFlags
  \/ MainPositional
  \/ RegistryInit
  \/ Validate
  \/ CreateTempDir
  \/ InitSociStore
  \/ Pull
  \/ BuildIndexSetup
  \/ Convert
  \/ Build
  \/ GetIndexDescriptorCollection
  \/ SelectLatest
  \/ Push
  \/ Return
  \/ MainExit

Spec == Init /\ [][Next]_vars

\* ---------------------------------------------------------------- release
\* cleanUp on its own, applied again and again to one directory: the directory
\* is one process made (with none, some or all of its entries) or one that is
\* gone already, and the result of process is one it returns after the defer
\* statement.
ReleaseOutcomes ==
  {[msg |-> "OCI storage initialization error", err |-> "store init failed"],
   [msg |-> "Image pull error", err |-> "pull failed"],
   [msg |-> "SOCI index build error", err |-> "no SOCI indices found in OCI store"],
   [msg |-> "SOCI index push error", err |-> "push failed"],
   [msg |-> SuccessMessage, err |-> NoErr]}

ReleaseInit ==
  /\ build \in Builds
  /\ entry = "call"
  /\ flags = NoParams
  /\ argc = 0
  /\ params = [repo |-> "app", digest |-> "sha256:deadbeef", region |-> "us-west-2",
               account |-> "123456789012", sociIndexVersion |-> "V1", imageTag |-> ""]
  /\ pc = "cleanUp"
  /\ registryUrl = buildEcrRegistryUrl(params.region, params.account)
  /\ dirState \in {"present", "removed"}
  /\ content \in (IF dirState = "present" THEN SUBSET DirEntries ELSE {{}})
  /\ deferred = TRUE
  /\ tag = ""
  /\ \E o \in ReleaseOutcomes :
       /\ retMsg = o.msg
       /\ retErr = o.err
       /\ err = o.err
  /\ catalog = <<>>
  /\ indexDescriptorInfos = <<>>
  /\ converted = NoDescriptor
  /\ indexDescriptor = NoDescriptor
  /\ returned = FALSE
  /\ exited = FALSE
  /\ exitCode = 0
  /\ events = <<>>
  /\ pushed = <<>>
  /\ FleetIdle

Release ==
  /\ pc = "cleanUp"
  /\ Count("cleanUp") < MaxReleases
  /\ \E removed \in removeAllOutcomes(dirState) : cleanUp(removed)
  /\ UNCHANGED <<inputVars, params, pc, registryUrl, content, deferred, tag, err,
                 catalog, indexDescriptorInfos, converted, indexDescriptor, pushed,
                 returned, exited, exitCode>>

ReleaseNext == Release

ReleaseSpec == ReleaseInit /\ [][ReleaseNext]_vars

\* ------------------------------------------------------------------ fleet
\* Several invocations on one host, each a process of its own, with /tmp in
\* common.  Of a run only what touches /tmp is kept: createTempDir, the
\* entries made under dataDir, and the deferred cleanUp.
singleRunVars == <<build, entry, flags, argc, params, pc, pipelineVars, resultVars,
                   exited, exitCode>>

FleetInit ==
  /\ build = "main.go"
  /\ entry = "call"
  /\ flags = NoParams
  /\ argc = 0
  /\ params = NoParams
  /\ pc = "done"
  /\ registryUrl = ""
  /\ dirState = "none"
  /\ content = {}
  /\ deferred = FALSE
  /\ tag = ""
  /\ err = NoErr
  /\ catalog = <<>>
  /\ indexDescriptorInfos = <<>>
  /\ converted = NoDescriptor
  /\ indexDescriptor = NoDescriptor
  /\ retMsg = ""
  /\ retErr = NoErr
  /\ returned = FALSE
  /\ exited = FALSE
  /\ exitCode = 0
  /\ events = <<>>
  /\ pushed = <<>>
  /\ FleetIdle

\* An invocation starts and gets as far as createTempDir; each process runs
\* main, and so process, once.
FleetInvoke(r) ==
  /\ runs[r].pc = "idle"
  /\ runs' = [runs EXCEPT ![r] = [pc |-> "createTempDir", dataDir |-> 0, wrote |-> {}]]
  /\ UNCHANGED <<tmp, singleRunVars>>

\* createTempDir: a new directory, or an error and the return before the defer
\* statement.
FleetCreateTempDir(r) ==
  /\ runs[r].pc = "createTempDir"
  /\ \/ \E n \in mkdirTemp(tmp) :
          /\ tmp' = [tmp EXCEPT ![n] = NewDir]
          /\ runs' = [runs EXCEPT ![r].pc = "deferred", ![r].dataDir = n]
     \/ /\ runs' = [runs EXCEPT ![r].pc = "done"]
        /\ UNCHANGED tmp
  /\ UNCHANGED singleRunVars

\* initSociStore, initSociArtifactsDb: an entry made at path.Join(dataDir, name).
FleetWrite(r) ==
  /\ runs[r].pc = "deferred"
  /\ \E name \in DirEntries \ runs[r].wrote :
       /\ tmp' = [tmp EXCEPT ![runs[r].dataDir] =
                    [exists |-> TRUE,
                     files |-> @.files \cup {[by |-> r, name |-> name]}]]
       /\ runs' = [runs EXCEPT ![r].wrote = @ \cup {name}]
  /\ UNCHANGED singleRunVars

\* process returns, by an error or at its end: the deferred cleanUp.
FleetCleanUp(r) ==
  /\ runs[r].pc = "deferred"
  /\ \E removed \in BOOLEAN : tmp' \in removeAll(tmp, runs[r].dataDir, removed)
  /\ runs' = [runs EXCEPT ![r].pc = "done"]
  /\ UNCHANGED singleRunVars

FleetNext ==
  \E r \in RunIds :
     \/ FleetInvoke(r)
     \/ FleetCreateTempDir(r)
     \/ FleetWrite(r)
     \/ FleetCleanUp(r)

FleetSpec == FleetInit /\ [][FleetNext]_vars

\* ------------------------------------------------------------ properties
Legacy == params.sociIndexVersion = "V1"
ConvertVariant == params.sociIndexVersion = "V2"
Pushes == 1..Len(pushed)
\* The operations called so far, and those of them that returned an error.
Ops == {events[i].op : i \in 1..Len(events)}
Failed == {events[i].op : i \in {j \in 1..Len(events) : ~events[j].ok}}

\* C1: whenever ValidateImageDigest returned an error, process returns a nil
\* error and a status message that is not the success message.
C1_ValidationSkipIsNilError ==
  (returned /\ Did("ValidateImageDigest", FALSE)) =>
     /\ retErr = NoErr
     /\ retMsg # SuccessMessage
     /\ retMsg # ""

C1_Witness ==
  /\ returned
  /\ Did("ValidateImageDigest", FALSE)
  /\ err = "image not found"
  /\ ConvertVariant

\* C2: the exit code is 0 exactly when the run ended in success or in the
\* validation skip, and 1 when main rejected the arguments or process
\* returned an error.
C2_RejectedByMain ==
  exited /\ ~returned /\ ~(build = "v1only" /\ positionalPanics(argc))

C2_ExitCode ==
  exited =>
     /\ exitCode = 0 <=> (returned /\ retMsg \in {SuccessMessage, SkipMessage})
     /\ C2_RejectedByMain => exitCode = 1
     /\ (returned /\ retErr # NoErr) => exitCode = 1

\* C3: a run that returns the success message with a nil error made exactly
\* one Push, of exactly one descriptor, and that Push returned without error;
\* the success message is never set without it.
C3_SuccessOnlyAfterPush ==
  (retMsg = SuccessMessage) =>
     /\ retErr = NoErr
     /\ Count("Push") = 1
     /\ Did("Push", TRUE)
     /\ Len(pushed) = 1
     /\ Len(pushed[1].descriptors) = 1
     /\ pushed[1].ok

C3_Witness ==
  /\ returned
  /\ retMsg = SuccessMessage
  /\ retErr = NoErr
  /\ Len(pushed) = 1

Elements(s) == {s[i] : i \in 1..Len(s)}
Reorderings(s) == {[i \in 1..Len(s) |-> s[p[i]]] : p \in Permutations(1..Len(s))}
DistinctTimes(s) ==
  \A i, j \in 1..Len(s) : i # j => s[i].CreatedAt # s[j].CreatedAt
Latest(s) == CHOOSE c \in Elements(s) : \A d \in Elements(s) : d.CreatedAt <= c.CreatedAt

\* C5: in a V1 run whose catalog lookup returned one or more candidates with
\* pairwise distinct creation timestamps, the descriptor handed to Push is the
\* one with the greatest timestamp, and buildIndex selects that same
\* descriptor from every reordering of the candidates.
C5_LatestCandidatePushed ==
  (Legacy /\ Len(catalog) >= 1 /\ DistinctTimes(catalog)) =>
     \A k \in Pushes :
        /\ pushed[k].descriptors = <<Latest(catalog).Descriptor>>
        /\ \A q \in Reorderings(catalog) : \A t \in sortSlice(q) :
              <<lastDescriptor(t)>> = pushed[k].descriptors

C5_Witness ==
  /\ Legacy
  /\ Len(pushed) = 1
  /\ Len(catalog) >= 2
  /\ DistinctTimes(catalog)
  /\ catalog[1].CreatedAt > catalog[2].CreatedAt
  /\ catalog[1].Descriptor # catalog[2].Descriptor

\* C6: in a V1 run where Build returned without error and the catalog lookup
\* returned no candidate, process returns a non-nil error, not the success
\* message, and Push is not invoked.
C6_NoCandidates ==
  Legacy /\ Did("Build", TRUE) /\ Did("GetIndexDescriptorCollection", TRUE)
         /\ catalog = <<>>

C6_ZeroCandidatesIsError ==
  C6_NoCandidates =>
     /\ Count("Push") = 0
     /\ retMsg # SuccessMessage
     /\ returned => retErr # NoErr

C6_Witness ==
  /\ C6_NoCandidates
  /\ returned
  /\ retErr = "no SOCI indices found in OCI store"

\* C7 as stated: a V2 run never invokes Build, GetIndexDescriptorCollection or
\* the sort, invokes Convert at most once, and a run that pushes invoked
\* Convert exactly once and pushes the descriptor Convert returned.
C7_ConvertOnlyBody ==
  /\ Count("Build") = 0
  /\ Count("GetIndexDescriptorCollection") = 0
  /\ Count("sort.Slice") = 0
  /\ Count("Convert") <= 1
  /\ pc = "push" => Count("Convert") = 1
  /\ \A k \in Pushes :
        /\ Count("Convert") = 1
        /\ Did("Convert", TRUE)
        /\ pushed[k].descriptors = <<converted>>

C8_ReleaseExactlyOnce ==
  /\ (returned /\ Did("createTempDir", TRUE)) => Count("cleanUp") = 1
  /\ (returned /\ ~Did("createTempDir", TRUE)) => Count("cleanUp") = 0
  /\ ~returned => Count("cleanUp") = 0
  /\ (returned /\ retMsg = SkipMessage) =>
        /\ Count("createTempDir") = 0
        /\ dirState = "none"
        /\ Count("cleanUp") = 0

C8_Witness ==
  /\ returned
  /\ Did("createTempDir", TRUE)
  /\ Did("Pull", FALSE)
  /\ Count("cleanUp") = 1

\* C9: the registry url is account, ".dkr.ecr.", region and a suffix, the
\* suffix being ".amazonaws.com.cn" when the first two characters of the
\* region are "cn" and ".amazonaws.com" otherwise.
C9_StartsWithCn(region) ==
  Len(region) >= 2 /\ SubSeq(region, 1, 2) = "cn"

C9_RegistryUrl ==
  Count("Init") >= 1 =>
     /\ registryUrl =
           params.account \o ".dkr.ecr." \o params.region \o
           (IF C9_StartsWithCn(params.region) THEN ".amazonaws.com.cn"
            ELSE ".amazonaws.com")
     /\ (params.region = "us-west-2" /\ params.account = "123456789012") =>
           registryUrl = "123456789012.dkr.ecr.us-west-2.amazonaws.com"
     /\ (params.region = "ca-central-1" /\ params.account = "123456789012") =>
           registryUrl = "123456789012.dkr.ecr.ca-central-1.amazonaws.com"

C9_Witness ==
  /\ Count("Init") >= 1
  /\ registryUrl = "123456789012.dkr.ecr.cn-north-1.amazonaws.com.cn"

\* C10: once the directory acquisition, a store or builder initialisation,
\* Pull, Build, Convert, the catalog lookup or Push has failed, no pipeline
\* stage is invoked after it (only the release), process returns a non-nil
\* error and not the success message.
C10_Stages ==
  {"createTempDir", "initSociStore", "Pull", "initSociArtifactsDb",
   "initContainerdStore", "NewIndexBuilder", "Build", "Convert",
   "GetIndexDescriptorCollection", "Push"}

C10_FailFast ==
  \A i \in 1..Len(events) :
     (events[i].op \in C10_Stages /\ ~events[i].ok) =>
        /\ \A j \in (i + 1)..Len(events) : events[j].op = "cleanUp"
        /\ pc \in {"return", "afterProcess", "done", "exited"}
        /\ retErr # NoErr
        /\ retMsg # SuccessMessage

C10_Witness ==
  /\ returned
  /\ Did("Build", FALSE)
  /\ Count("Push") = 0
  /\ retErr # NoErr

\* C11: when a required argument is missing, the version is neither V1 nor V2,
\* or the version is V2 and no tag is given, the program started from the
\* command line exits with a non-zero code and never invokes a registry
\* operation (nor any other collaborator); a run from the command line never
\* invokes Convert with an empty tag.
C11_BadArguments ==
  \/ flags.repo = "" \/ flags.digest = "" \/ flags.region = "" \/ flags.account = ""
  \/ flags.sociIndexVersion \notin {"V1", "V2"}
  \/ (flags.sociIndexVersion = "V2" /\ flags.imageTag = "")

C11_RejectedBeforeRegistry ==
  entry = "cli" =>
     /\ C11_BadArguments =>
           /\ events = <<>>
           /\ ~returned
           /\ pc \in {"main", "exited"}
           /\ pc = "exited" => (exited /\ exitCode # 0)
     /\ params.imageTag = "" => "Convert" \notin Ops

C11_Witness ==
  /\ entry = "cli"
  /\ build = "main.go"
  /\ flags.repo = "app" /\ flags.digest # "" /\ flags.region # "" /\ flags.account # ""
  /\ flags.sociIndexVersion = "V2"
  /\ flags.imageTag = ""
  /\ exited
  /\ exitCode = 1

\* C12: within one run no operation is invoked a second time, whether its
\* first call succeeded or failed: every step that makes a call makes one that
\* was not made before (so ValidateImageDigest, createTempDir, Pull, Build,
\* Convert, GetIndexDescriptorCollection and Push are each invoked at most
\* once), and Build is not called after Convert nor Convert after Build.
C12_NewCall(k) ==
  \A i \in 1..(k - 1) :
     /\ events'[i].op # events'[k].op
     /\ {events'[i].op, events'[k].op} # {"Build", "Convert"}

C12_Step ==
  /\ Len(events') >= Len(events)
  /\ SubSeq(events', 1, Len(events)) = events
  /\ \A k \in (Len(events) + 1)..Len(events') : C12_NewCall(k)

C12_AtMostOnce == [][C12_Step]_vars

C12_Witness ==
  /\ returned
  /\ Did("Push", FALSE)
  /\ Count("Push") = 1
  /\ Count("Pull") = 1

\* C14: the calls of a run occur in the order Init, ValidateImageDigest,
\* createTempDir, (store set-up,) Pull, (builder set-up,) Build or Convert,
\* GetIndexDescriptorCollection and the selection (only in a run that took the
\* Build protocol), Push, cleanUp: every call comes later in this order than
\* all calls made before it, and, unless it is cleanUp, is made only when all
\* of them returned without error; process returns with cleanUp as the last
\* call when it acquired a directory, and makes no call after it returned.
C14_Rank ==
  [op \in {"Init", "ValidateImageDigest", "createTempDir", "initSociStore", "Pull",
           "initSociArtifactsDb", "initContainerdStore", "NewIndexBuilder", "Build",
           "Convert", "GetIndexDescriptorCollection", "sort.Slice", "Push",
           "cleanUp"} |->
     CASE op = "Init" -> 1
       [] op = "ValidateImageDigest" -> 2
       [] op = "createTempDir" -> 3
       [] op = "initSociStore" -> 4
       [] op = "Pull" -> 5
       [] op = "initSociArtifactsDb" -> 6
       [] op = "initContainerdStore" -> 7
       [] op = "NewIndexBuilder" -> 8
       [] op \in {"Build", "Convert"} -> 9
       [] op = "GetIndexDescriptorCollection" -> 10
       [] op = "sort.Slice" -> 11
       [] op = "Push" -> 12
       [] op = "cleanUp" -> 13]

C14_CallInOrder(k) ==
  LET call == events'[k] IN
  /\ \A i \in 1..(k - 1) :
       /\ C14_Rank[events'[i].op] < C14_Rank[call.op]
       /\ call.op # "cleanUp" => events'[i].ok
  /\ call.op \in {"GetIndexDescriptorCollection", "sort.Slice"} =>
       /\ \E i \in 1..(k - 1) : events'[i] = Call("Build", TRUE)
       /\ \A i \in 1..(k - 1) : events'[i].op # "Convert"
       /\ build # "v1only" => ~ConvertVariant

C14_Step ==
  /\ \A k \in (Len(events) + 1)..Len(events') : C14_CallInOrder(k)
  /\ returned => events' = events
  /\ (returned' /\ ~returned /\ dirState' # "none") =>
        events'[Len(events')].op = "cleanUp"

C15_StableLast(s) ==
  CHOOSE i \in 1..Len(s) :
     /\ \A j \in 1..Len(s) : s[j].CreatedAt <= s[i].CreatedAt
     /\ \A j \in (i + 1)..Len(s) : s[j].CreatedAt < s[i].CreatedAt

C15_TieBrokenByInputOrder ==
  (Legacy /\ Len(catalog) >= 1) =>
     \A k \in Pushes :
        pushed[k].descriptors = <<catalog[C15_StableLast(catalog)].Descriptor>>

\* C16: the step in which process returns, and with it the deferred cleanUp,
\* leaves the status message and the error as they were, whether the removal
\* succeeds or fails.
C16_ReleaseFailureNotSurfaced ==
  [][pc = "return" => (retMsg' = retMsg /\ retErr' = retErr)]_vars

C16_Witness ==
  /\ returned
  /\ Did("Push", TRUE)
  /\ Did("cleanUp", FALSE)
  /\ dirState = "leftover"
  /\ retMsg = SuccessMessage
  /\ retErr = NoErr

\* C17: a V1 run never invokes Convert and invokes Build at most once, exactly
\* once when it gets as far as the builder; GetIndexDescriptorCollection is
\* invoked only after Build returned without error; and no run invokes both
\* Build and Convert.
C17_LegacyUsesBuild ==
  LET ops == Ops IN
  /\ Legacy =>
       /\ "Convert" \notin ops
       /\ Count("Build") <= 1
       /\ (pc # "builder" /\ Did("NewIndexBuilder", TRUE)) => "Build" \in ops
       /\ Len(pushed) >= 1 => Did("Build", TRUE)
  /\ \A i \in 1..Len(events) :
       events[i].op = "GetIndexDescriptorCollection" =>
          (i > 1 /\ events[i - 1] = Call("Build", TRUE))
  /\ ~({"Build", "Convert"} \subseteq ops)
  /\ "Convert" \in ops => ConvertVariant

C17_Witness ==
  /\ Legacy
  /\ returned
  /\ Did("Build", TRUE)
  /\ Did("GetIndexDescriptorCollection", TRUE)
  /\ Len(pushed) = 1

\* C19: what process returns always has a non-empty status message, and the
\* message tells the outcome: the skip message, the success message and the
\* failure messages of registry init, directory create, store init, pull,
\* build and push are returned for exactly their own outcome (so they are
\* pairwise distinct), and a failure message comes with a non-nil error.
C19_FailureMessages ==
  {"Remote registry initialization error", "Directory create error",
   "OCI storage initialization error", "Image pull error",
   "SOCI index build error", "SOCI index push error"}

C19_Messages == C19_FailureMessages \cup {SkipMessage, SuccessMessage}
C19_PairwiseDistinct == Cardinality(C19_Messages) = 8

C19_BuildFailed(failed) ==
  \/ failed \cap {"initSociArtifactsDb", "initContainerdStore", "NewIndexBuilder",
                  "Build", "Convert", "GetIndexDescriptorCollection"} # {}
  \/ (Did("GetIndexDescriptorCollection", TRUE) /\ Len(catalog) = 0)

C19_MessageTellsOutcome ==
  returned =>
     LET failed == Failed IN
     /\ retMsg # ""
     /\ retMsg \in C19_Messages
     /\ C19_PairwiseDistinct
     /\ retMsg = SkipMessage <=> "ValidateImageDigest" \in failed
     /\ retMsg = SuccessMessage <=> Did("Push", TRUE)
     /\ retMsg = "Remote registry initialization error" <=> "Init" \in failed
     /\ retMsg = "Directory create error" <=> "createTempDir" \in failed
     /\ retMsg = "OCI storage initialization error" <=> "initSociStore" \in failed
     /\ retMsg = "Image pull error" <=> "Pull" \in failed
     /\ retMsg = "SOCI index build error" <=> C19_BuildFailed(failed)
     /\ retMsg = "SOCI index push error" <=> "Push" \in failed
     /\ retMsg \in C19_FailureMessages <=> retErr # NoErr

C19_Witness ==
  /\ returned
  /\ Did("Pull", FALSE)
  /\ retMsg = "Image pull error"
  /\ retErr = "pull failed"

\* C20: a run in which registryutils.Init or createTempDir failed returns a
\* non-nil error, registers no deferred cleanUp and invokes none, and invokes
\* neither Pull, Build, Convert nor Push; after a failed Init the run does not
\* invoke ValidateImageDigest and does not return the skip outcome.
C20_NoReleaseBeforeAcquisition ==
  LET failed == Failed IN
  /\ ("Init" \in failed \/ "createTempDir" \in failed) =>
        /\ ~deferred
        /\ dirState = "none"
        /\ Ops \cap {"cleanUp", "Pull", "Build", "Convert", "Push"} = {}
        /\ pc \notin {"initSociStore", "pull", "buildIndex", "builder", "enumerate",
                      "select", "push"}
        /\ returned => (retErr # NoErr /\ retMsg \notin {SkipMessage, SuccessMessage})
  /\ "Init" \in failed =>
        /\ events = <<Call("Init", FALSE)>>
        /\ pc \notin {"validate", "createTempDir"}

C20_Witness ==
  /\ returned
  /\ Did("Init", TRUE)
  /\ Did("ValidateImageDigest", TRUE)
  /\ Did("createTempDir", FALSE)
  /\ retMsg = "Directory create error"
  /\ retErr = "mkdir failed"
  /\ ~deferred

\* C18 (as the code has it): a cleanUp never changes the status message or the
\* error; when os.RemoveAll returns nil the directory is absent, whatever was
\* made under it; on a directory that is absent already os.RemoveAll returns
\* nil and the directory stays absent; and when os.RemoveAll fails the
\* directory stays.
C18_ReleaseStep ==
  LET last == events'[Len(events')] IN
  events' # events =>
     /\ last.op = "cleanUp"
     /\ retMsg' = retMsg
     /\ retErr' = retErr
     /\ last.ok => dirState' = "removed"
     /\ dirState = "removed" => (last.ok /\ dirState' = "removed")
     /\ ~last.ok => dirState' = "leftover"

C13_Live(r) == runs[r].pc = "deferred"

C13_OwnEntries(r) == {[by |-> r, name |-> name] : name \in runs[r].wrote}

C13_OwnDirectory ==
  \A r \in RunIds :
     C13_Live(r) =>
        /\ runs[r].dataDir \in Names
        /\ tmp[runs[r].dataDir] = [exists |-> TRUE, files |-> C13_OwnEntries(r)]
        /\ \A q \in RunIds \ {r} :
              C13_Live(q) => runs[q].dataDir # runs[r].dataDir

C13_Witness ==
  /\ C13_Live(1)
  /\ runs[1].wrote = DirEntries
  /\ runs[2].pc = "done"
  /\ runs[2].dataDir \in Names
  /\ ~tmp[runs[2].dataDir].exists

====
